---------------------------- MODULE Spec2Model ----------------------------
(***************************************************************************)
(* A model of the query submission pipeline of the reql driver            *)
(* (src/src/commands.rs): building a RootCommand with Command::wrap and    *)
(* the chained commands, wrapping it with Query::wrap, and RootCommand::run *)
(* with its retry loop over Client::conn(), Query::write and Query::read.  *)
(*                                                                         *)
(* Text (a String) is a sequence of pieces, each a record [txt, len]: the   *)
(* characters and their number of bytes.  A number of bytes is a pair      *)
(* <<hi, lo>> of 16-bit limbs, hi * 2^16 + lo, so that a usize beyond      *)
(* 2^32 - 1 and its cast to u32 are both represented exactly.              *)
(*                                                                         *)
(* The transport is the environment: every Client::conn(), Query::write    *)
(* and Query::read may succeed or fail, and a read that succeeds delivers  *)
(* any payload of Payloads.  log records every call on the transport, as   *)
(* a mock of it would.                                                     *)
(***************************************************************************)
EXTENDS Integers, Sequences, FiniteSets, TLC

VARIABLES
    cmd,        \* the RootCommand under construction: RootCommand(Result<String>)
    hist,       \* the arguments given to the commands that built cmd, in order
    pc,         \* "build", then the position inside run(): "loop", "write", "read", "done"
    retries,    \* cfg.retries
    i,          \* run: let mut i
    write,      \* run: let mut write
    connect,    \* run: let mut connect
    query,      \* run: let query
    conn,       \* run: let mut conn, as the number of the connection held (0: none)
    conns,      \* the connections Client::conn() has handed out: [token, broken, init]
    attempts,   \* the number of iterations of the while loop entered so far
    log,        \* the calls made on the transport, in order
    result,     \* what run() returned
    cfgHeld,    \* run: let cfg, the read guard of Client::config() being alive
    writer,     \* a thread reconfiguring the session: "idle", "waiting", "done"
    fnPc,       \* the function applied on its own: "idle", or its name and stage
    fnIn,       \* the arguments of that function
    fnOut       \* what it returned

vars == <<cmd, hist, pc, retries, i, write, connect, query, conn, conns,
          attempts, log, result, cfgHeld, writer, fnPc, fnIn, fnOut>>

-----------------------------------------------------------------------------
(* Bounds *)

MaxRetries == 3

MaxChain == 1

\* the nesting depth of the JSON values given to wrap_arrays
MaxJsonDepth == 3

-----------------------------------------------------------------------------
(* Byte counts: usize as two limbs, and the cast `as u32` *)

Limb == 65536

Size(hi, lo) == <<hi, lo>>

Small(n) == Size(0, n)

AddSize(a, b) ==
    Size(a[1] + b[1] + ((a[2] + b[2]) \div Limb), (a[2] + b[2]) % Limb)

\* query.len() as u32: the low 32 bits
AsU32(n) == Size(n[1] % Limb, n[2])

Piece(txt, len) == [txt |-> txt, len |-> len]

Lit(txt) == <<Piece(txt, Small(Len(txt)))>>

RECURSIVE ByteLen(_)
\* str::len(): the number of bytes of a text
ByteLen(s) ==
    IF s = <<>> THEN Small(0)
    ELSE IF Len(s) = 1 THEN s[1].len
    ELSE LET half == Len(s) \div 2
         IN  AddSize(ByteLen(SubSeq(s, 1, half)), ByteLen(SubSeq(s, half + 1, Len(s))))

-----------------------------------------------------------------------------
(* Errors and results *)

Error(kind, msg) == [kind |-> kind, msg |-> msg]

NoError == Error("", "")

Ok(text) == [ok |-> TRUE, val |-> text, err |-> NoError]

Err(e) == [ok |-> FALSE, val |-> <<>>, err |-> e]

NonObjectMsg == "Only objects are allowed as function options"

\* Error::description() of a RootCommand's error, as DriverError::Other carries it
Description(e) == e.msg

-----------------------------------------------------------------------------
(* serde_json::Value, wrap_arrays and serde_json::to_string *)

\* Value::I64, Value::String, Value::Array, Value::Object (a map in key order)
Num(n) == [t |-> "num", n |-> n, s |-> "", keys |-> <<>>, items |-> <<>>]

Str(str) == [t |-> "str", n |-> 0, s |-> str, keys |-> <<>>, items |-> <<>>]

Arr(items) == [t |-> "arr", n |-> 0, s |-> "", keys |-> <<>>, items |-> items]

Obj(keys, vals) == [t |-> "obj", n |-> 0, s |-> "", keys |-> keys, items |-> vals]

\* tt::MAKE_ARRAY.value()
MakeArray == 2

RECURSIVE WrapArraysFlat(_)
\* wrap_arrays with the elements of an array normalized only when they are arrays
WrapArraysFlat(val) ==
    IF val.t = "arr"
    THEN Arr(<<Num(MakeArray),
               Arr([k \in 1..Len(val.items) |->
                       IF val.items[k].t = "arr"
                       THEN WrapArraysFlat(val.items[k])
                       ELSE val.items[k]])>>)
    ELSE IF val.t = "obj"
    THEN Obj(val.keys, [k \in 1..Len(val.items) |-> WrapArraysFlat(val.items[k])])
    ELSE val

RECURSIVE WrapArrays(_)
\* wrap_arrays(val)
WrapArrays(val) ==
    IF val.t = "arr"
    THEN Arr(<<Num(MakeArray),
               Arr([k \in 1..Len(val.items) |->
                       IF val.items[k].t = "arr" \/ val.items[k].t = "obj"
                       THEN WrapArrays(val.items[k])
                       ELSE val.items[k]])>>)
    ELSE IF val.t = "obj"
    THEN Obj(val.keys, [k \in 1..Len(val.items) |-> WrapArrays(val.items[k])])
    ELSE val

RECURSIVE ToJson(_)
\* serde_json::to_string(&val): compact, the keys of an object in their order
ToJson(val) ==
    LET Join(parts) ==
            LET RECURSIVE J(_)
                J(k) == IF k > Len(parts) THEN <<>>
                        ELSE (IF k > 1 THEN Lit(",") ELSE <<>>) \o parts[k] \o J(k + 1)
            IN  J(1)
    IN  CASE val.t = "num" -> Lit(ToString(val.n))
          [] val.t = "str" -> Lit("\"" \o val.s \o "\"")
          [] val.t = "arr" ->
                Lit("[") \o Join([k \in 1..Len(val.items) |-> ToJson(val.items[k])])
                         \o Lit("]")
          [] val.t = "obj" ->
                Lit("{") \o Join([k \in 1..Len(val.items) |->
                                     Lit("\"" \o val.keys[k] \o "\"") \o Lit(":")
                                         \o ToJson(val.items[k])])
                         \o Lit("}")

-----------------------------------------------------------------------------
(* Arguments: IntoCommandArg *)

StrArg(txt, len) ==
    [kind |-> "str", text |-> <<Piece(txt, len)>>, ok |-> TRUE, err |-> NoError,
     value |-> Num(0)]

\* (T, Value) with T a &str and the Value a number or an empty object
PairArg(txt, len, isObject) ==
    [kind |-> "pair", text |-> <<Piece(txt, len)>>, ok |-> TRUE, err |-> NoError,
     value |-> IF isObject THEN Obj(<<>>, <<>>) ELSE Num(1)]

\* a RootCommand given as an argument
CmdArg(c) ==
    [kind |-> "cmd", text |-> c.val, ok |-> c.ok, err |-> c.err, value |-> Num(0)]

\* a bool, char, integer or float given as an argument; txt is what its
\* Display writes
ScalarArg(txt) ==
    [kind |-> "scalar", text |-> Lit(txt), ok |-> TRUE, err |-> NoError,
     value |-> Num(0)]

\* a serde_json::Value given as an argument
ValueArg(val) ==
    [kind |-> "value", text |-> <<>>, ok |-> TRUE, err |-> NoError, value |-> val]

\* impl IntoCommandArg for &str: format!("{:?}", self), the text in quotes
StrToArg(a) ==
    [ok |-> TRUE, err |-> NoError,
     arg |-> <<Piece("\"" \o a.text[1].txt \o "\"", AddSize(a.text[1].len, Small(2)))>>,
     opt |-> <<>>]

\* impl IntoCommandArg for Value: serde_json::to_string does not fail on a
\* Value
ValueToArg(a) ==
    [ok |-> TRUE, err |-> NoError, arg |-> ToJson(WrapArrays(a.value)), opt |-> <<>>]

\* impl IntoCommandArg for RootCommand
CmdToArg(a) ==
    IF a.ok
    THEN [ok |-> TRUE, err |-> NoError, arg |-> a.text, opt |-> <<>>]
    ELSE [ok |-> FALSE, err |-> Error("Other", Description(a.err)),
          arg |-> <<>>, opt |-> <<>>]

\* impl<T> IntoCommandArg for (T, Value)
PairToArg(a) ==
    IF a.value.t # "obj"
    THEN [ok |-> FALSE, err |-> Error("Other", NonObjectMsg), arg |-> <<>>, opt |-> <<>>]
    ELSE [ok |-> TRUE, err |-> NoError,
          arg |-> StrToArg(a).arg, opt |-> ValueToArg(a).arg]

\* define!{ impl IntoCommandArg for bool, char, u8 .. f64 }: self.to_string()
ScalarToArg(a) ==
    [ok |-> TRUE, err |-> NoError, arg |-> a.text, opt |-> <<>>]

ToArg(a) ==
    CASE a.kind = "str" -> StrToArg(a)
      [] a.kind = "pair" -> PairToArg(a)
      [] a.kind = "cmd" -> CmdToArg(a)
      [] a.kind = "scalar" -> ScalarToArg(a)
      [] a.kind = "value" -> ValueToArg(a)

\* a string of 2^32 - 2 bytes: in quotes it is 2^32 bytes long
HugeLen == Size(Limb - 1, Limb - 2)

FailedCmd == Err(Error("Json", "e0"))

Args ==
    { StrArg("users", Small(5)),
      StrArg("huge", HugeLen),
      PairArg("users", Small(5), TRUE),
      PairArg("users", Small(5), FALSE),
      CmdArg(FailedCmd) }

-----------------------------------------------------------------------------
(* Command::wrap, the chained commands and Query::wrap *)

\* command.value() of ql2::proto::Term_TermType, in decimal
OpValue(op) ==
    CASE op = "DB" -> "14"
      [] op = "TABLE" -> "15"
      [] op = "DELETE" -> "54"

NoInput == [kind |-> "none", text |-> <<>>, ok |-> TRUE, err |-> NoError,
            value |-> Num(0)]

\* Command::wrap(command, input, commands); commands = <<>> stands for None
\* only where the caller passes None
Wrap(op, hasInput, input, hasCommands, commands) ==
    LET cmds0 == Lit("[") \o Lit(OpValue(op)) \o Lit(",")
        args0 == IF hasCommands
                 THEN commands \o (IF hasInput THEN Lit(",") ELSE <<>>)
                 ELSE <<>>
        enc == IF hasInput THEN ToArg(input)
               ELSE [ok |-> TRUE, err |-> NoError, arg |-> <<>>, opt |-> <<>>]
        args1 == args0 \o enc.arg
        cmds1 == cmds0 \o Lit("[") \o args1 \o Lit("]")
        cmds2 == IF enc.opt # <<>> THEN cmds1 \o Lit(",") \o enc.opt ELSE cmds1
    IN  IF ~enc.ok THEN Err(enc.err) ELSE Ok(cmds2 \o Lit("]"))

\* Client::db(name)
ClientDb(name) == Wrap("DB", TRUE, name, FALSE, <<>>)

\* the macro without its match on self.0: the error is dropped
CommandNoMatch(self, op, arg) == Wrap(op, TRUE, arg, TRUE, self.val)

\* the command! macro: RootCommand::table(self, arg)
Command(self, op, arg) ==
    IF ~self.ok THEN Err(self.err)
    ELSE Wrap(op, TRUE, arg, TRUE, self.val)

\* RootCommand::delete(self)
DeleteCommand(self) ==
    IF ~self.ok THEN Err(self.err)
    ELSE Wrap("DELETE", FALSE, NoInput, TRUE, self.val)

\* Query::wrap(qt::START, Some(&commands), None); qt::START.value() is 1
QueryWrap(commands) == Lit("[") \o Lit("1") \o Lit(",") \o commands \o Lit("]")

-----------------------------------------------------------------------------
(* The transport: connections, frames, responses *)

\* the literal msg of run(), the prefix of the shard-unavailable response
Msg == Lit("{\"t\":18,\"e\":4100000,\"r\":[\"Cannot perform write: primary replica for shard")

\* a byte that is not valid UTF-8
BadByte == Piece("<0xFF>", Small(1))

Payloads ==
    { Lit("{\"t\":1,\"r\":[1]}"),
      Lit("{\"t\":18,\"e\":4100000,\"r\":[\"Cannot perform read"),
      Msg \o Lit(" [\"\", +inf) not available\"],\"b\":[]}"),
      <<BadByte>>,
      Msg \o <<BadByte>> }

\* the response taken as text without validating it
Utf8ValidAlways(resp) == TRUE

\* str::from_utf8(&resp).is_ok()
Utf8Valid(resp) == \A k \in 1..Len(resp) : resp[k] # BadByte

\* result.starts_with(msg)
StartsWith(s, p) == Len(s) >= Len(p) /\ SubSeq(s, 1, Len(p)) = p

IoErrors == { Error("Io", "e1"), Error("Io", "e2") }

ConnErrors == { Error("Conn", "c1") }

Utf8Error == Error("Utf8", "invalid utf-8")

OpFailed == Error("OpFailed", "Not available")

\* the token a connection carries when Client::conn() hands it out
InitTokens == {0, 7}

NewConn(t) == [token |-> t, broken |-> FALSE, init |-> t]

\* what a successful Query::write puts on the stream: write_u64(token),
\* write_u32(query.len() as u32), write_all(query)
Frame(q, token) ==
    [token |-> token, lenField |-> AsU32(ByteLen(q)), size |-> ByteLen(q)]

NoFrame == [token |-> 0, lenField |-> Small(0), size |-> Small(0)]

\* one call on the transport, as the log keeps it
Event(op, c, tok, ok, e, data, frame) ==
    [op |-> op, att |-> attempts', conn |-> c, tok |-> tok, ok |-> ok, err |-> e,
     data |-> data, frame |-> frame]

-----------------------------------------------------------------------------
(* RootCommand::run *)

NoResult == [ret |-> FALSE, ok |-> FALSE, val |-> <<>>, err |-> NoError]

Return(r) == [ret |-> TRUE, ok |-> r.ok, val |-> r.val, err |-> r.err]

\* an off-by-one in the test of the last attempt: i == cfg.retries
IsLastNever(ii, n) == ii = n

\* the error surfaced one attempt before the last one
IsLastEarly(ii, n) == ii >= n - 2

\* i == cfg.retries - 1
IsLast(ii, n) == ii = n - 1

\* the increment forgotten
BumpTokenNone(t) == t

\* conn.token += 1
BumpToken(t) == t + 1

\* the connection kept after Query::write failed
ConnectAfterWriteErrClear == FALSE

\* connect = true, after Query::write failed
ConnectAfterWriteErr == TRUE

\* the flag left set after Query::write succeeded
ConnectAfterWriteOkSet == TRUE

\* connect = false, after Query::write succeeded
ConnectAfterWriteOk == FALSE

\* the flag left clear after the shard-unavailable response
WriteAfterShardClear == FALSE

\* write = true, after the shard-unavailable response
WriteAfterShard == TRUE

\* the flag left set after Query::read failed
WriteAfterReadErrSet == TRUE

\* write = false, after Query::read failed
WriteAfterReadErr == FALSE

\* the attempt counted twice
NextITwice(ii) == ii + 2

\* i += 1
NextI(ii) == ii + 1

\* the loop entered once more than retries allows
LoopCondInclusive(ii, n) == ii <= n

\* while i < cfg.retries
LoopCond(ii, n) == ii < n

\* let cfg = Client::config().read(): the guard lives to the end of run()
GuardAfter(p) == p # "done"

\* the value run() returns after the loop: Ok(String::new())
RunOk(resp) == Ok(<<>>)

\* the connection taken to be suspect after Query::read failed
ConnectAfterReadErrSet(c) == TRUE

\* connect after Query::read failed: the Err arm leaves it as it is
ConnectAfterReadErr(c) == c

Init ==
    /\ \E a \in Args : cmd = ClientDb(a) /\ hist = <<a>>
    /\ retries \in 0..MaxRetries
    /\ pc = "build"
    /\ i = 0
    /\ write = TRUE
    /\ connect = FALSE
    /\ query = <<>>
    /\ conn = 0
    /\ conns = <<>>
    /\ attempts = 0
    /\ log = <<>>
    /\ result = NoResult
    /\ cfgHeld = FALSE
    /\ writer = "idle"
    /\ fnPc = "idle"
    /\ fnIn = <<>>
    /\ fnOut = <<>>

fnVars == <<fnPc, fnIn, fnOut>>

runVars == <<retries, i, write, connect, query, conn, conns, attempts, log, result>>

\* a chained command of the command! macro
Chain ==
    /\ pc = "build"
    /\ Len(hist) <= MaxChain
    /\ \E a \in Args :
        /\ cmd' = Command(cmd, "TABLE", a)
        /\ hist' = Append(hist, a)
    /\ UNCHANGED <<pc, runVars>>
    /\ UNCHANGED <<cfgHeld, writer, fnVars>>

\* RootCommand::delete
Delete ==
    /\ pc = "build"
    /\ Len(hist) <= MaxChain
    /\ cmd' = DeleteCommand(cmd)
    /\ hist' = Append(hist, NoInput)
    /\ UNCHANGED <<pc, runVars>>
    /\ UNCHANGED <<cfgHeld, writer, fnVars>>

\* try!(self.0) fails: run() returns the error of the build
RunBuildError ==
    /\ pc = "build"
    /\ ~cmd.ok
    /\ result' = Return(Err(cmd.err))
    /\ pc' = "done"
    /\ UNCHANGED <<cmd, hist, retries, i, write, connect, query, conn, conns,
                   attempts, log>>
    /\ UNCHANGED <<cfgHeld, writer, fnVars>>

\* run() up to the loop, the first Client::conn() failing: try!(Client::conn())
RunConnError ==
    /\ pc = "build"
    /\ cmd.ok
    /\ query' = QueryWrap(cmd.val)
    /\ attempts' = attempts
    /\ \E e \in ConnErrors :
        /\ log' = Append(log, Event("conn", 0, 0, FALSE, e, <<>>, NoFrame))
        /\ result' = Return(Err(e))
    /\ pc' = "done"
    /\ UNCHANGED <<cmd, hist, retries, i, write, connect, conn, conns>>
    /\ cfgHeld' = GuardAfter(pc')
    /\ UNCHANGED <<writer, fnVars>>

\* run() up to the loop, the first Client::conn() succeeding
RunStart ==
    /\ pc = "build"
    /\ cmd.ok
    /\ query' = QueryWrap(cmd.val)
    /\ attempts' = attempts
    /\ \E t \in InitTokens :
        /\ conns' = Append(conns, NewConn(t))
        /\ conn' = Len(conns')
        /\ log' = Append(log, Event("conn", conn', t, TRUE, NoError, <<>>, NoFrame))
    /\ i' = 0
    /\ write' = TRUE
    /\ connect' = FALSE
    /\ pc' = "loop"
    /\ UNCHANGED <<cmd, hist, retries, result>>
    /\ cfgHeld' = GuardAfter(pc')
    /\ UNCHANGED <<writer, fnVars>>

\* while i < cfg.retries is false: Ok(String::new())
LoopExit ==
    /\ pc = "loop"
    /\ ~LoopCond(i, retries)
    /\ result' = Return(RunOk(<<>>))
    /\ pc' = "done"
    /\ UNCHANGED <<cmd, hist, retries, i, write, connect, query, conn, conns,
                   attempts, log>>
    /\ cfgHeld' = GuardAfter(pc')
    /\ UNCHANGED <<writer, fnVars>>

\* an iteration with connect set, Client::conn() failing
ReconnectError ==
    /\ pc = "loop"
    /\ LoopCond(i, retries)
    /\ connect
    /\ attempts' = attempts + 1
    /\ \E e \in ConnErrors :
        /\ log' = Append(log, Event("conn", 0, 0, FALSE, e, <<>>, NoFrame))
        /\ IF IsLast(i, retries)
           THEN pc' = "done" /\ result' = Return(Err(e)) /\ i' = i
           ELSE pc' = "loop" /\ result' = result /\ i' = NextI(i)
    /\ UNCHANGED <<cmd, hist, retries, write, connect, query, conn, conns>>
    /\ cfgHeld' = GuardAfter(pc')
    /\ UNCHANGED <<writer, fnVars>>

\* an iteration with connect set, Client::conn() succeeding; conn.token += 1
Reconnect ==
    /\ pc = "loop"
    /\ LoopCond(i, retries)
    /\ connect
    /\ attempts' = attempts + 1
    /\ \E t \in InitTokens :
        /\ conns' = Append(conns, [NewConn(t) EXCEPT !.token = BumpToken(t)])
        /\ conn' = Len(conns')
        /\ log' = Append(log, Event("conn", conn', t, TRUE, NoError, <<>>, NoFrame))
    /\ pc' = IF write THEN "write" ELSE "read"
    /\ UNCHANGED <<cmd, hist, retries, i, write, connect, query, result>>
    /\ cfgHeld' = GuardAfter(pc')
    /\ UNCHANGED <<writer, fnVars>>

\* an iteration with connect clear: conn.token += 1 on the connection held
Advance ==
    /\ pc = "loop"
    /\ LoopCond(i, retries)
    /\ ~connect
    /\ attempts' = attempts + 1
    /\ conns' = [conns EXCEPT ![conn].token = BumpToken(@)]
    /\ pc' = IF write THEN "write" ELSE "read"
    /\ UNCHANGED <<cmd, hist, retries, i, write, connect, query, conn, log, result>>
    /\ cfgHeld' = GuardAfter(pc')
    /\ UNCHANGED <<writer, fnVars>>

\* Query::write fails: conn.broken = true, connect = true
WriteError ==
    /\ pc = "write"
    /\ attempts' = attempts
    /\ \E e \in IoErrors :
        /\ log' = Append(log, Event("write", conn, conns[conn].token, FALSE, e, <<>>, NoFrame))
        /\ IF IsLast(i, retries)
           THEN pc' = "done" /\ result' = Return(Err(e)) /\ i' = i
           ELSE pc' = "loop" /\ result' = result /\ i' = NextI(i)
    /\ conns' = [conns EXCEPT ![conn].broken = TRUE]
    /\ connect' = ConnectAfterWriteErr
    /\ UNCHANGED <<cmd, hist, retries, write, query, conn>>
    /\ cfgHeld' = GuardAfter(pc')
    /\ UNCHANGED <<writer, fnVars>>

\* Query::write succeeds: connect = false
WriteOk ==
    /\ pc = "write"
    /\ attempts' = attempts
    /\ log' = Append(log, Event("write", conn, conns[conn].token, TRUE, NoError, query,
                                Frame(query, conns[conn].token)))
    /\ connect' = ConnectAfterWriteOk
    /\ pc' = "read"
    /\ UNCHANGED <<cmd, hist, retries, i, write, query, conn, conns, result>>
    /\ cfgHeld' = GuardAfter(pc')
    /\ UNCHANGED <<writer, fnVars>>

\* Query::read fails: conn.broken = true, write = false
ReadError ==
    /\ pc = "read"
    /\ attempts' = attempts
    /\ \E e \in IoErrors :
        /\ log' = Append(log, Event("read", conn, conns[conn].token, FALSE, e, <<>>, NoFrame))
        /\ IF IsLast(i, retries)
           THEN pc' = "done" /\ result' = Return(Err(e)) /\ i' = i
           ELSE pc' = "loop" /\ result' = result /\ i' = NextI(i)
    /\ conns' = [conns EXCEPT ![conn].broken = TRUE]
    /\ write' = WriteAfterReadErr
    /\ connect' = ConnectAfterReadErr(connect)
    /\ UNCHANGED <<cmd, hist, retries, query, conn>>
    /\ cfgHeld' = GuardAfter(pc')
    /\ UNCHANGED <<writer, fnVars>>

\* Query::read succeeds with a payload that is not valid UTF-8: try!(str::from_utf8)
ReadNotUtf8 ==
    /\ pc = "read"
    /\ attempts' = attempts
    /\ \E p \in Payloads :
        /\ ~Utf8Valid(p)
        /\ log' = Append(log, Event("read", conn, conns[conn].token, TRUE, NoError, p, NoFrame))
    /\ result' = Return(Err(Utf8Error))
    /\ pc' = "done"
    /\ UNCHANGED <<cmd, hist, retries, i, write, connect, query, conn, conns>>
    /\ cfgHeld' = GuardAfter(pc')
    /\ UNCHANGED <<writer, fnVars>>

\* Query::read succeeds with the shard-unavailable response: write = true
ReadShard ==
    /\ pc = "read"
    /\ attempts' = attempts
    /\ \E p \in Payloads :
        /\ Utf8Valid(p)
        /\ StartsWith(p, Msg)
        /\ log' = Append(log, Event("read", conn, conns[conn].token, TRUE, NoError, p, NoFrame))
    /\ IF IsLast(i, retries)
       THEN pc' = "done" /\ result' = Return(Err(OpFailed)) /\ i' = i
       ELSE pc' = "loop" /\ result' = result /\ i' = NextI(i)
    /\ write' = WriteAfterShard
    /\ UNCHANGED <<cmd, hist, retries, connect, query, conn, conns>>
    /\ cfgHeld' = GuardAfter(pc')
    /\ UNCHANGED <<writer, fnVars>>

\* Query::read succeeds with any other response: break, then Ok(String::new())
ReadOk ==
    /\ pc = "read"
    /\ attempts' = attempts
    /\ \E p \in Payloads :
        /\ Utf8Valid(p)
        /\ ~StartsWith(p, Msg)
        /\ log' = Append(log, Event("read", conn, conns[conn].token, TRUE, NoError, p, NoFrame))
        /\ result' = Return(RunOk(p))
    /\ pc' = "done"
    /\ UNCHANGED <<cmd, hist, retries, i, write, connect, query, conn, conns>>
    /\ cfgHeld' = GuardAfter(pc')
    /\ UNCHANGED <<writer, fnVars>>

Next ==
    \/ Chain
    \/ Delete
    \/ RunBuildError
    \/ RunConnError
    \/ RunStart
    \/ LoopExit
    \/ ReconnectError
    \/ Reconnect
    \/ Advance
    \/ WriteError
    \/ WriteOk
    \/ ReadOk
    \/ ReadShard
    \/ ReadNotUtf8
    \/ ReadError

Spec == Init /\ [][Next]_vars

\* every call of Client::conn(), Query::write and Query::read returns
FairSpec == Spec /\ WF_vars(Next)

-----------------------------------------------------------------------------
(* RootCommand::run beside a reconfiguration of the session *)

\* a thread asks for the write side of the lock of the session configuration
WriterArrive ==
    /\ writer = "idle"
    /\ writer' = "waiting"
    /\ UNCHANGED <<cmd, hist, pc, runVars, cfgHeld, fnVars>>

\* the write side is granted while no read guard is alive; the configuration
\* is rewritten, which a run() not yet started will see
WriterReconfigure ==
    /\ writer = "waiting"
    /\ ~cfgHeld
    /\ writer' = "done"
    /\ IF pc = "build" THEN retries' \in 0..MaxRetries ELSE retries' = retries
    /\ UNCHANGED <<cmd, hist, pc, i, write, connect, query, conn, conns, attempts,
                   log, result, cfgHeld, fnVars>>

LockNext ==
    \/ RunBuildError
    \/ RunConnError
    \/ RunStart
    \/ LoopExit
    \/ ReconnectError
    \/ Reconnect
    \/ Advance
    \/ WriteError
    \/ WriteOk
    \/ ReadOk
    \/ ReadShard
    \/ ReadNotUtf8
    \/ ReadError
    \/ WriterArrive
    \/ WriterReconfigure

LockSpec == Init /\ [][LockNext]_vars

-----------------------------------------------------------------------------
(* A function applied on its own *)

\* the state of run() and of the session while a function is applied on its own
RunIdle ==
    /\ cmd = Ok(<<>>)
    /\ hist = <<>>
    /\ retries = 0
    /\ pc = "idle"
    /\ i = 0
    /\ write = TRUE
    /\ connect = FALSE
    /\ query = <<>>
    /\ conn = 0
    /\ conns = <<>>
    /\ attempts = 0
    /\ log = <<>>
    /\ result = NoResult
    /\ cfgHeld = FALSE
    /\ writer = "idle"

sessionVars == <<cmd, hist, pc, retries, i, write, connect, query, conn, conns,
                 attempts, log, result, cfgHeld, writer>>

-----------------------------------------------------------------------------
(* Command::wrap applied on its own *)

WrapOps == { "DB", "TABLE", "DELETE" }

\* the arguments of every kind that implements IntoCommandArg: &str, (T, Value),
\* RootCommand, the scalars 7, 'a' and ',', and Values with arrays in them
WrapArgs ==
    Args \cup
    { ScalarArg("7"), ScalarArg("a"), ScalarArg(","),
      CmdArg(ClientDb(StrArg("users", Small(5)))),
      ValueArg(Num(1)),
      ValueArg(Arr(<<Num(1), Num(2)>>)),
      ValueArg(Obj(<<"a">>, <<Arr(<<Num(1)>>)>>)) }

\* the sub-terms the callers pass as commands: a RootCommand's text
SubTerms ==
    { ClientDb(StrArg("users", Small(5))).val,
      Command(ClientDb(StrArg("users", Small(5))), "TABLE",
              PairArg("users", Small(5), TRUE)).val,
      ToArg(ValueArg(Arr(<<Num(1), Num(2)>>))).arg }

WrapInit ==
    /\ RunIdle
    /\ fnPc = "term"
    /\ \E op \in WrapOps, hasInput \in BOOLEAN, hasCommands \in BOOLEAN :
         \E input \in IF hasInput THEN WrapArgs ELSE {NoInput},
            commands \in IF hasCommands THEN SubTerms ELSE {<<>>} :
              fnIn = [op |-> op, hasInput |-> hasInput, input |-> input,
                      hasCommands |-> hasCommands, commands |-> commands]
    /\ fnOut = Ok(<<>>)

\* Command::wrap(command, input, commands)
WrapCall ==
    /\ fnPc = "term"
    /\ fnOut' = Wrap(fnIn.op, fnIn.hasInput, fnIn.input, fnIn.hasCommands, fnIn.commands)
    /\ fnPc' = "wrapped"
    /\ UNCHANGED <<fnIn, sessionVars>>

WrapNext == WrapCall

WrapSpec == WrapInit /\ [][WrapNext]_vars

-----------------------------------------------------------------------------
(* wrap_arrays applied on its own *)

JsonScalars == { Num(1), Num(2), Str("a") }

\* the second element of the arrays of two elements given to wrap_arrays
JsonSeconds == JsonScalars \cup { Arr(<<Num(1)>>) }

RECURSIVE JsonValues(_)
\* the values of nesting depth at most d
JsonValues(d) ==
    IF d = 0 THEN JsonScalars
    ELSE LET S == JsonValues(d - 1)
         IN  JsonScalars
             \cup { Arr(<<>>), Obj(<<>>, <<>>) }
             \cup { Arr(<<x>>) : x \in S }
             \cup { Arr(<<x, y>>) : x \in S, y \in JsonSeconds }
             \cup { Obj(<<"a">>, <<x>>) : x \in S }
             \cup { Obj(<<"a", "b">>, <<x, y>>) : x \in S, y \in JsonScalars }

JsonInit ==
    /\ RunIdle
    /\ fnPc = "value"
    /\ fnIn \in JsonValues(MaxJsonDepth)
    /\ fnOut = Num(0)

\* wrap_arrays applied to the value
Normalize ==
    /\ fnPc = "value"
    /\ fnOut' = WrapArrays(fnIn)
    /\ fnPc' = "normalized"
    /\ UNCHANGED <<fnIn, sessionVars>>

JsonNext == Normalize

JsonSpec == JsonInit /\ [][JsonNext]_vars

-----------------------------------------------------------------------------
(* The frame codec on its own: Query::write onto a stream, Query::read from it *)

\* n bytes of v, least significant first: byteorder's LittleEndian
RECURSIVE LeBytes(_, _)
LeBytes(v, n) == IF n = 0 THEN <<>> ELSE <<v % 256>> \o LeBytes(v \div 256, n - 1)

\* the value of bytes read least significant first
RECURSIVE FromLe(_)
FromLe(bs) == IF bs = <<>> THEN 0 ELSE Head(bs) + 256 * FromLe(Tail(bs))

\* a byte of the stream whose value is known
Byte(b) == [txt |-> "", len |-> Small(1), b |-> b]

\* the bytes of a text on the stream
Body(text) == [k \in 1..Len(text) |-> [txt |-> text[k].txt, len |-> text[k].len, b |-> -1]]

\* the text made of bytes taken from the stream
Text(items) == [k \in 1..Len(items) |-> Piece(items[k].txt, items[k].len)]

Bytes(bs) == [k \in 1..Len(bs) |-> Byte(bs[k])]

\* a u64 is four limbs, least significant first
U64(n) == <<n % Limb, n \div Limb, 0, 0>>

\* the token in the byte order of the reader's machine, were it big-endian
TokenBytesBigEndian(t) ==
    LET le == LeBytes(t[1], 2) \o LeBytes(t[2], 2) \o LeBytes(t[3], 2) \o LeBytes(t[4], 2)
    IN  [k \in 1..8 |-> le[9 - k]]

\* write_u64::<LittleEndian>(token)
TokenBytes(t) ==
    LeBytes(t[1], 2) \o LeBytes(t[2], 2) \o LeBytes(t[3], 2) \o LeBytes(t[4], 2)

\* the length written most significant byte first
LenBytesBigEndian(n) ==
    LET le == LeBytes(AsU32(n)[2], 2) \o LeBytes(AsU32(n)[1], 2)
    IN  [k \in 1..4 |-> le[5 - k]]

\* write_u32::<LittleEndian>(query.len() as u32)
LenBytes(n) == LeBytes(AsU32(n)[2], 2) \o LeBytes(AsU32(n)[1], 2)

\* Query::write(query, conn) with conn.token = token; fail is the call on the
\* stream that fails (1: write_u64, 2: write_u32, 3: write_all, 4: flush; 0: none).
\* What a failing call has already put on the stream is taken to be nothing.
QueryWrite(q, token, fail) ==
    LET s1 == Bytes(TokenBytes(token))
        s2 == s1 \o Bytes(LenBytes(ByteLen(q)))
        s3 == s2 \o Body(q)
    IN  CASE fail = 1 -> [ok |-> FALSE, broken |-> TRUE, stream |-> <<>>]
          [] fail = 2 -> [ok |-> FALSE, broken |-> TRUE, stream |-> s1]
          [] fail = 3 -> [ok |-> FALSE, broken |-> TRUE, stream |-> s2]
          [] fail = 4 -> [ok |-> FALSE, broken |-> TRUE, stream |-> s3]
          [] OTHER -> [ok |-> TRUE, broken |-> FALSE, stream |-> s3]

LeSize(a, b) == a[1] < b[1] \/ (a[1] = b[1] /\ a[2] <= b[2])

\* a - b, for b <= a
SubSize(a, b) ==
    IF a[2] >= b[2] THEN Size(a[1] - b[1], a[2] - b[2])
    ELSE Size(a[1] - b[1] - 1, a[2] + Limb - b[2])

\* the first n bytes of the stream and what stays on it; ok is FALSE when the
\* stream ends before n bytes (read_exact fails)
RECURSIVE TakeBytes(_, _)
TakeBytes(s, n) ==
    IF n = Small(0) THEN [ok |-> TRUE, got |-> <<>>, rest |-> s]
    ELSE IF s = <<>> THEN [ok |-> FALSE, got |-> <<>>, rest |-> <<>>]
    ELSE IF LeSize(Head(s).len, n)
    THEN LET r == TakeBytes(Tail(s), SubSize(n, Head(s).len))
         IN  [ok |-> r.ok, got |-> <<Head(s)>> \o r.got, rest |-> r.rest]
    ELSE [ok |-> TRUE,
          got |-> <<[Head(s) EXCEPT !.txt = @ \o "<head>", !.len = n]>>,
          rest |-> <<[Head(s) EXCEPT !.txt = @ \o "<tail>", !.len = SubSize(@, n)]>>
                   \o Tail(s)]

Values(items) == [k \in 1..Len(items) |-> items[k].b]

NoToken == <<0, 0, 0, 0>>

\* Query::read(conn) on a stream: read_u64, read_u32, read_exact. token is the
\* value the first match binds and drops
QueryRead(s) ==
    LET t == TakeBytes(s, Small(8))
        l == TakeBytes(t.rest, Small(4))
        tv == Values(t.got)
        lv == Values(l.got)
        len == Size(FromLe(SubSeq(lv, 3, 4)), FromLe(SubSeq(lv, 1, 2)))
        r == TakeBytes(l.rest, len)
        failed == [ok |-> FALSE, broken |-> TRUE, token |-> NoToken, resp |-> <<>>,
                   rest |-> <<>>]
    IN  IF ~t.ok THEN failed
        ELSE IF ~l.ok THEN failed
        ELSE IF ~r.ok THEN failed
        ELSE [ok |-> TRUE, broken |-> FALSE,
              token |-> <<FromLe(SubSeq(tv, 1, 2)), FromLe(SubSeq(tv, 3, 4)),
                          FromLe(SubSeq(tv, 5, 6)), FromLe(SubSeq(tv, 7, 8))>>,
              resp |-> Text(r.got), rest |-> r.rest]

FrameTokens ==
    { U64(0), U64(8), U64(258), U64(65539), <<1, 2, 3, 4>>,
      <<Limb - 1, Limb - 1, Limb - 1, Limb - 1>> }

FramePayloads ==
    { <<>>,
      Lit("[1]"),
      QueryWrap(ClientDb(StrArg("users", Small(5))).val),
      <<Piece("max", Size(Limb - 1, Limb - 1))>>,
      <<Piece("over", Size(Limb, 0))>>,
      QueryWrap(ClientDb(StrArg("huge", HugeLen)).val) }

FrameInit ==
    /\ RunIdle
    /\ fnPc = "frame"
    /\ fnIn \in [token : FrameTokens, payload : FramePayloads]
    /\ fnOut = [ok |-> TRUE, broken |-> FALSE, stream |-> <<>>]

\* Query::write of the payload with the token, every call on the stream succeeding
FrameWrite ==
    /\ fnPc = "frame"
    /\ fnOut' = QueryWrite(fnIn.payload, fnIn.token, 0)
    /\ fnPc' = "written"
    /\ UNCHANGED <<fnIn, sessionVars>>

\* Query::write of the payload with the token, a call on the stream failing
FrameWriteError ==
    /\ fnPc = "frame"
    /\ \E fail \in 1..4 : fnOut' = QueryWrite(fnIn.payload, fnIn.token, fail)
    /\ fnPc' = "writeFailed"
    /\ UNCHANGED <<fnIn, sessionVars>>

\* Query::read on the bytes that Query::write put on the stream
FrameRead ==
    /\ fnPc \in {"written", "writeFailed"}
    /\ fnOut' = QueryRead(fnOut.stream)
    /\ fnPc' = IF fnPc = "written" THEN "read" ELSE "readFailed"
    /\ UNCHANGED <<fnIn, sessionVars>>

FrameNext == FrameWrite \/ FrameWriteError \/ FrameRead

FrameSpec == FrameInit /\ [][FrameNext]_vars

-----------------------------------------------------------------------------
(* What the log shows *)

LastEvent == log[Len(log)]

IsIo(e) == e.op \in {"write", "read"}

\* attempt k (the k-th iteration of the loop) failed at write or at read
IoFailed(k) == \E j \in DOMAIN log : log[j].att = k /\ IsIo(log[j]) /\ ~log[j].ok

\* attempt k read a response starting with the shard-unavailable prefix
ShardRead(k) ==
    \E j \in DOMAIN log :
        log[j].att = k /\ log[j].op = "read" /\ log[j].ok /\ StartsWith(log[j].data, Msg)

\* attempt k read a response not starting with the shard-unavailable prefix
OtherRead(k) ==
    \E j \in DOMAIN log :
        log[j].att = k /\ log[j].op = "read" /\ log[j].ok /\ ~StartsWith(log[j].data, Msg)

\* the calls of Query::write during attempt k
WritesOf(k) == { j \in DOMAIN log : log[j].att = k /\ log[j].op = "write" }

OkWritesOn(c) == { j \in DOMAIN log : log[j].op = "write" /\ log[j].ok /\ log[j].conn = c }

OkReadsOn(c) == { j \in DOMAIN log : log[j].op = "read" /\ log[j].ok /\ log[j].conn = c }

-----------------------------------------------------------------------------
(* Claims *)

\* C1 (as claimed): whenever run() reads a response payload that does not start
\* with the shard-unavailable prefix, it returns Ok carrying exactly that payload.
C1_PayloadReturned ==
    \A j \in DOMAIN log :
        (log[j].op = "read" /\ log[j].ok /\ ~StartsWith(log[j].data, Msg))
            => (result.ret /\ result.ok /\ result.val = log[j].data)

\* C2: for every retries budget N >= 1, if N attempts in a row fail at write or at
\* read, run() makes exactly N attempts and returns the error of the N-th attempt;
\* it neither makes another attempt nor returns an earlier attempt's error.
C2_RetryExhaustion ==
    retries >= 1 =>
        /\ attempts <= retries
        /\ (\A k \in 1..retries : IoFailed(k)) =>
              /\ pc = "done"
              /\ attempts = retries
              /\ LastEvent.att = retries /\ IsIo(LastEvent) /\ ~LastEvent.ok
              /\ result.ret /\ ~result.ok /\ result.err = LastEvent.err
        /\ (result.ret /\ attempts >= 1 /\ \A k \in 1..attempts : IoFailed(k)) =>
              attempts = retries

\* C2's case: three attempts failed, at write and at read, the first with another
\* error than the last, and the last one's error was returned
C2_Witness ==
    /\ retries = 3
    /\ \A k \in 1..3 : IoFailed(k)
    /\ \E j, h \in DOMAIN log :
        /\ log[j].op = "write" /\ ~log[j].ok /\ log[j].att = 1
        /\ log[h].op = "read" /\ ~log[h].ok
        /\ log[j].err # result.err
    /\ result.ret

OtherUtf8Read(k) ==
    \E j \in DOMAIN log :
        /\ log[j].att = k /\ log[j].op = "read" /\ log[j].ok
        /\ Utf8Valid(log[j].data) /\ ~StartsWith(log[j].data, Msg)

ReadFailedAfterWrite(j) ==
    /\ j > 1
    /\ log[j].op = "read" /\ ~log[j].ok
    /\ log[j - 1].op = "write" /\ log[j - 1].ok /\ log[j - 1].att = log[j].att

\* C4: if on a non-final attempt Query::write succeeds and Query::read then fails,
\* the next attempt performs no Query::write and goes directly to Query::read; the
\* query is written again only after a later read returned the shard-unavailable
\* response.
C4_ReadOnlyReplay ==
    \A j \in DOMAIN log :
        ReadFailedAfterWrite(j) =>
            /\ (j = Len(log) /\ ~result.ret) => pc \in {"loop", "read"}
            /\ j < Len(log) =>
                  /\ log[j + 1].op = "read"
                  /\ log[j + 1].att = log[j].att + 1
            /\ \A k \in (j + 1)..Len(log) :
                  log[k].op = "write" =>
                      \E h \in (j + 1)..(k - 1) :
                          /\ log[h].op = "read" /\ log[h].ok
                          /\ StartsWith(log[h].data, Msg)

\* C4's case: a write, its read failing, a read alone on the next attempt, and a
\* later write
C4_Witness ==
    \E j \in DOMAIN log :
        /\ ReadFailedAfterWrite(j)
        /\ j < Len(log) /\ log[j + 1].op = "read"
        /\ \E k \in (j + 2)..Len(log) : log[k].op = "write"

\* C5 (as claimed): once an I/O failure in Query::write or Query::read has set
\* conn.broken on a connection, run() performs no further Query::write or
\* Query::read on that connection.
C5_BrokenNotReused ==
    \A j, k \in DOMAIN log :
        (j < k /\ IsIo(log[j]) /\ ~log[j].ok /\ IsIo(log[k])) =>
            log[k].conn # log[j].conn

EventsOn(c) == { j \in DOMAIN log : log[j].conn = c }

\* C6: on every connection the tokens of the frames successfully written are
\* strictly increasing, the first being the token at acquisition plus 1;
\* conn.token is never decreased and is incremented before every write.
C6_TokenMonotonic ==
    \A c \in DOMAIN conns :
        /\ \A j, k \in OkWritesOn(c) : j < k => log[j].frame.token < log[k].frame.token
        /\ \A j \in OkWritesOn(c) :
              (\A k \in OkWritesOn(c) : j <= k) => log[j].frame.token = conns[c].init + 1
        /\ \A j, k \in EventsOn(c) : j < k => log[j].tok <= log[k].tok
        /\ \A j \in EventsOn(c) : conns[c].init <= log[j].tok /\ log[j].tok <= conns[c].token
        /\ \A k \in EventsOn(c) :
              log[k].op = "write" =>
                  /\ conns[c].init < log[k].tok
                  /\ \A j \in EventsOn(c) : j < k => log[j].tok < log[k].tok

\* C6's case: two frames written on a connection acquired with token 7
C6_Witness ==
    \E c \in DOMAIN conns :
        /\ conns[c].init = 7
        /\ Cardinality(OkWritesOn(c)) >= 2

\* C7 (as claimed): every connection acquisition of run(), the first included, is
\* retried when it fails and attempts remain: its failure is surfaced only on the
\* last attempt (i == retries - 1), and on an earlier attempt it is followed by
\* another acquisition.
C7_AcquireRetried ==
    retries >= 1 =>
        \A j \in DOMAIN log :
            (log[j].op = "conn" /\ ~log[j].ok) =>
                /\ (j = Len(log) /\ result.ret) => i = retries - 1
                /\ j < Len(log) => log[j + 1].op = "conn"

\* the step of the build that failed: an argument whose to_arg fails
Fails(a) == a.kind # "none" /\ ~ToArg(a).ok

\* C8: if a step of building the query fails, every later chained command keeps
\* the error, and run() returns it without acquiring a connection, incrementing a
\* token or performing any Query::write or Query::read.
C8_BuildErrorNoIo ==
    \A k \in DOMAIN hist :
        (Fails(hist[k]) /\ \A h \in 1..(k - 1) : ~Fails(hist[h])) =>
            /\ ~cmd.ok
            /\ cmd.err = ToArg(hist[k]).err
            /\ pc \in {"build", "done"}
            /\ pc = "done" => result = Return(Err(cmd.err))
            /\ log = <<>> /\ conns = <<>> /\ conn = 0 /\ attempts = 0

\* C8's case: the first argument failed, a command was chained with an argument
\* that encodes, and run() has returned
C8_Witness ==
    /\ Len(hist) >= 2
    /\ Fails(hist[1]) /\ hist[2].kind = "str"
    /\ pc = "done" /\ result.ret /\ ~result.ok

\* C9: on every connection requests and responses are paired, at most one
\* outstanding: between two successful Query::write there is a successful
\* Query::read, and Query::read is never called with no query outstanding.
C9_Paired ==
    \A c \in DOMAIN conns :
        /\ \A j, k \in OkWritesOn(c) :
              j < k => \E h \in OkReadsOn(c) : j < h /\ h < k
        /\ \A k \in EventsOn(c) :
              log[k].op = "read" =>
                  \E j \in OkWritesOn(c) :
                      /\ j < k
                      /\ \A h \in OkReadsOn(c) : ~(j < h /\ h < k)

\* C9's case: a connection with a failed read, a read repeated for the query still
\* outstanding, and a second query written after its response
C9_Witness ==
    \E c \in DOMAIN conns :
        /\ Cardinality(OkWritesOn(c)) >= 2
        /\ \E j \in EventsOn(c) : log[j].op = "read" /\ ~log[j].ok

\* C10 (as claimed): every frame emitted by Query::write declares in its length
\* field exactly the number of payload bytes that follow, for every payload length.
C10_LengthField ==
    \A j \in DOMAIN log :
        (log[j].op = "write" /\ log[j].ok) => log[j].frame.lenField = log[j].frame.size

\* 2^32 - 1, the largest u32
MaxU32 == Size(Limb - 1, Limb - 1)

\* C11: for any token and any payload of at most 2^32 - 1 bytes, Query::read on
\* the bytes emitted by a successful Query::write yields the same token and the
\* same payload, and leaves no byte of the frame unread.
C11_RoundTrip ==
    (fnPc = "read" /\ LeSize(ByteLen(fnIn.payload), MaxU32)) =>
        /\ fnOut.ok
        /\ fnOut.token = fnIn.token
        /\ fnOut.resp = fnIn.payload
        /\ fnOut.rest = <<>>

\* C11's case: a payload of exactly 2^32 - 1 bytes read back with a token that
\* fills the eight bytes
C11_Witness ==
    /\ fnPc = "read"
    /\ ByteLen(fnIn.payload) = MaxU32
    /\ fnIn.token = <<Limb - 1, Limb - 1, Limb - 1, Limb - 1>>
    /\ fnOut.ok /\ fnOut.resp = fnIn.payload

RECURSIVE IsNormalOf(_, _)
\* w is v with every array, at any depth, replaced at its place by
\* [MAKE_ARRAY, [elements]], the objects keeping their keys and the scalars as
\* they are
IsNormalOf(v, w) ==
    CASE v.t = "arr" ->
            /\ w.t = "arr"
            /\ Len(w.items) = 2
            /\ w.items[1] = Num(MakeArray)
            /\ w.items[2].t = "arr"
            /\ Len(w.items[2].items) = Len(v.items)
            /\ \A k \in 1..Len(v.items) : IsNormalOf(v.items[k], w.items[2].items[k])
      [] v.t = "obj" ->
            /\ w.t = "obj"
            /\ w.keys = v.keys
            /\ Len(w.items) = Len(v.items)
            /\ \A k \in 1..Len(v.items) : IsNormalOf(v.items[k], w.items[k])
      [] OTHER -> w = v

\* C13: wrap_arrays is structural: every array of the value, at any depth, is
\* replaced at its place by [MAKE_ARRAY, [normalized elements]] in the original
\* order, every object keeps exactly its keys with each value normalized and is
\* not itself wrapped, every scalar is unchanged.
C13_WrapArraysStructural ==
    fnPc = "normalized" => IsNormalOf(fnIn, fnOut)

\* C13's case: an array holding an object holding an array, {"a":[1,2]} inside
C13_Witness ==
    /\ fnPc = "normalized"
    /\ fnIn = Arr(<<Obj(<<"a">>, <<Arr(<<Num(1), Num(2)>>)>>), Str("a")>>)
    /\ fnOut = Arr(<<Num(MakeArray),
                     Arr(<<Obj(<<"a">>,
                               <<Arr(<<Num(MakeArray), Arr(<<Num(1), Num(2)>>)>>)>>),
                           Str("a")>>)>>)

-----------------------------------------------------------------------------
(* Reading a text as JSON *)

RECURSIVE Scan(_, _, _, _)
\* the parts of s between the commas outside every bracket and brace
Scan(s, depth, cur, acc) ==
    IF s = <<>> THEN [ok |-> depth = 0, elems |-> Append(acc, cur)]
    ELSE LET h == Head(s)
         IN  IF h.txt = "," /\ depth = 0
             THEN Scan(Tail(s), 0, <<>>, Append(acc, cur))
             ELSE IF h.txt \in {"[", "{"}
             THEN Scan(Tail(s), depth + 1, Append(cur, h), acc)
             ELSE IF h.txt \in {"]", "}"}
             THEN IF depth = 0 THEN [ok |-> FALSE, elems |-> <<>>]
                  ELSE Scan(Tail(s), depth - 1, Append(cur, h), acc)
             ELSE Scan(Tail(s), depth, Append(cur, h), acc)

Enclosed(text, open, close) ==
    /\ Len(text) >= 2
    /\ text[1].txt = open
    /\ text[Len(text)].txt = close

\* the elements of the text between its first and last character
Elems(text) ==
    IF Len(text) = 2 THEN [ok |-> TRUE, elems |-> <<>>]
    ELSE Scan(SubSeq(text, 2, Len(text) - 1), 0, <<>>, <<>>)

\* the text is what serde_json writes for some string
IsJsonString(p) ==
    \E str \in {"a", "b", "users", "huge"} : p.txt = ToJson(Str(str))[1].txt

\* the text is what serde_json writes for some number or string
IsJsonLiteral(p) ==
    \/ \E n \in 0..99 : p.txt = ToJson(Num(n))[1].txt
    \/ IsJsonString(p)

RECURSIVE IsJson(_)
\* the text is one JSON value
IsJson(text) ==
    IF Len(text) = 1 THEN IsJsonLiteral(text[1])
    ELSE IF Enclosed(text, "[", "]")
    THEN LET e == Elems(text)
         IN  e.ok /\ \A k \in 1..Len(e.elems) : IsJson(e.elems[k])
    ELSE IF Enclosed(text, "{", "}")
    THEN LET e == Elems(text)
         IN  /\ e.ok
             /\ \A k \in 1..Len(e.elems) :
                  LET m == e.elems[k]
                  IN  /\ Len(m) >= 3
                      /\ IsJsonString(m[1])
                      /\ m[2].txt = ":"
                      /\ IsJson(SubSeq(m, 3, Len(m)))
    ELSE FALSE

\* C12: a successful Command::wrap returns a JSON array of 2 or 3 elements:
\* the opcode's integer value; an array holding the sub-term (if present)
\* followed by the argument's positional JSON (if present), [] when both are
\* absent; and a third element exactly when the encoded argument produced
\* options, which is those options.
C12_TermShape ==
    (fnPc = "wrapped" /\ fnOut.ok) =>
        LET enc == IF fnIn.hasInput THEN ToArg(fnIn.input)
                   ELSE [ok |-> TRUE, err |-> NoError, arg |-> <<>>, opt |-> <<>>]
            expected == (IF fnIn.hasCommands THEN <<fnIn.commands>> ELSE <<>>)
                        \o (IF enc.arg # <<>> THEN <<enc.arg>> ELSE <<>>)
            top == Elems(fnOut.val)
        IN  /\ IsJson(fnOut.val)
            /\ Enclosed(fnOut.val, "[", "]")
            /\ top.ok
            /\ Len(top.elems) \in {2, 3}
            /\ top.elems[1] = Lit(OpValue(fnIn.op))
            /\ Enclosed(top.elems[2], "[", "]")
            /\ Elems(top.elems[2]).ok
            /\ Elems(top.elems[2]).elems = expected
            /\ (Len(top.elems) = 3) <=> (enc.opt # <<>>)
            /\ Len(top.elems) = 3 => top.elems[3] = enc.opt

-----------------------------------------------------------------------------
(* The retry loop *)

\* the call that ended run() was a read of the final attempt
FinalRead ==
    /\ log # <<>>
    /\ LastEvent.op = "read" /\ LastEvent.ok
    /\ LastEvent.att = retries

WriteFailedEarly(j) ==
    log[j].op = "write" /\ ~log[j].ok /\ log[j].att < retries

\* C15: after Query::write fails on a non-final attempt, the next attempt asks
\* Client::conn() for a new connection before it increments a token or writes,
\* the query is then written again on that new connection, and the connection
\* on which the write failed receives no further write or read.
C15_ReconnectAfterWriteError ==
    \A j \in DOMAIN log :
        WriteFailedEarly(j) =>
            /\ (j = Len(log) /\ pc = "loop") => (connect /\ write)
            /\ j = Len(log) => pc = "loop"
            /\ j < Len(log) =>
                  /\ log[j + 1].op = "conn"
                  /\ log[j + 1].att = log[j].att + 1
                  /\ log[j + 1].ok =>
                        /\ log[j + 1].conn # log[j].conn
                        /\ log[j + 1].tok = conns[log[j + 1].conn].init
                        /\ pc \in {"write", "read", "loop", "done"}
                        /\ (j + 1 = Len(log)) => pc = "write"
                        /\ (j + 1 < Len(log)) =>
                              /\ log[j + 2].op = "write"
                              /\ log[j + 2].conn = log[j + 1].conn
                              /\ log[j + 2].att = log[j + 1].att
                              /\ log[j + 2].tok = BumpToken(log[j + 1].tok)
                              /\ log[j + 2].ok => log[j + 2].data = query
            /\ \A k \in DOMAIN log :
                  (k > j /\ IsIo(log[k])) => log[k].conn # log[j].conn

\* C15's case: the write of the first attempt fails, the second attempt takes a
\* new connection and writes the query on it
C15_Witness ==
    \E j \in DOMAIN log :
        /\ WriteFailedEarly(j)
        /\ j + 2 \in DOMAIN log
        /\ log[j + 1].op = "conn" /\ log[j + 1].ok
        /\ log[j + 2].op = "write" /\ log[j + 2].ok
        /\ log[j + 2].conn # log[j].conn
        /\ log[j + 2].data = query

\* C16: run() does not hold the lock of the session configuration while it
\* acquires connections, writes or reads, so that a writer waiting for the lock
\* is not kept waiting by the calls on the transport.
C16_NoLockAcrossIo ==
    (writer = "waiting" /\ pc \in {"loop", "write", "read"}) => ~cfgHeld

\* the iterations begun never exceed retries, and i counts the ones completed
IterationsBounded ==
    /\ attempts <= retries
    /\ pc = "loop" => (i = attempts /\ i <= retries)
    /\ pc \in {"write", "read"} => (attempts = i + 1 /\ i < retries)

\* a step of the loop returns, breaks, goes on within the iteration, or begins
\* the next iteration with i one more; i is never decreased or reset
IterationStep ==
    pc \in {"loop", "write", "read"} =>
        \/ pc' = "done" /\ i' = i
        \/ pc' \in {"write", "read"} /\ pc' # pc /\ i' = i
        \/ pc' = "loop" /\ i' = i + 1

\* C17: every call on the transport returning, run() always terminates, after at
\* most retries iterations: every iteration returns, breaks or increments i by
\* exactly 1, and i is never decreased or reset.
C17_Terminates ==
    /\ []IterationsBounded
    /\ [][IterationStep]_vars
    /\ <>(pc = "done")

\* C17's case: run() has returned after retries = 3 iterations that all failed
C17_Witness ==
    /\ pc = "done" /\ retries = 3 /\ attempts = 3 /\ i = 2
    /\ IoFailed(1) /\ IoFailed(2) /\ IoFailed(3)

\* the first call of Query::write or Query::read on connection c
FirstIoOn(c) ==
    CHOOSE j \in DOMAIN log :
        /\ IsIo(log[j]) /\ log[j].conn = c
        /\ \A k \in DOMAIN log : (IsIo(log[k]) /\ log[k].conn = c) => j <= k

\* C18: at the start of every iteration connect implies write; connect set with
\* write clear is unreachable, so every connection run() acquires is written to
\* before it is read.
C18_ConnectImpliesWrite ==
    /\ ~(connect /\ ~write)
    /\ \A c \in DOMAIN conns :
          (\E j \in DOMAIN log : IsIo(log[j]) /\ log[j].conn = c) =>
              log[FirstIoOn(c)].op = "write"
    /\ \A j \in DOMAIN log :
          (log[j].op = "read") =>
              \E k \in 1..(j - 1) :
                  log[k].op = "write" /\ log[k].ok /\ log[k].conn = log[j].conn

\* C18's case: the third iteration starts with connect set, after two failed
\* writes on two connections
C18_Witness ==
    /\ pc = "loop" /\ i = 2 /\ connect /\ write
    /\ Len(conns) = 2
    /\ \A c \in DOMAIN conns : log[FirstIoOn(c)].op = "write"

\* C19: with retries = 0, the query built and the first connection acquired,
\* run() returns Ok without incrementing the token of the connection and without
\* any Query::write or Query::read.
C19_ZeroRetries ==
    (retries = 0 /\ cmd.ok /\ pc \in {"loop", "write", "read", "done"} /\ conns # <<>>) =>
        /\ pc \in {"loop", "done"}
        /\ pc = "loop" => ~LoopCond(i, retries)
        /\ pc = "done" => (result.ret /\ result.ok)
        /\ attempts = 0
        /\ Len(conns) = 1
        /\ conns[1].token = conns[1].init
        /\ \A j \in DOMAIN log : ~IsIo(log[j])

\* C19's case: run() has returned Ok with retries = 0, one connection taken and
\* nothing written
C19_Witness ==
    /\ retries = 0 /\ pc = "done"
    /\ result.ret /\ result.ok
    /\ Len(conns) = 1 /\ Len(log) = 1
    /\ log[1].op = "conn" /\ log[1].ok

\* the last call was a Query::read that returned a payload holding a byte that
\* is not valid UTF-8
ReadBadBytes ==
    /\ log # <<>>
    /\ LastEvent.op = "read" /\ LastEvent.ok
    /\ \E k \in DOMAIN LastEvent.data : LastEvent.data[k] = BadByte

\* run() returned an error from inside the loop before the final attempt
EarlyError ==
    pc = "done" /\ result.ret /\ ~result.ok /\ attempts >= 1 /\ attempts < retries

\* C20: when Query::read succeeds with a payload that is not valid UTF-8, run()
\* returns the error at once on that attempt, whatever i, without retrying and
\* without changing write or connect; no other failure inside the loop is
\* returned before the final attempt.
C20_Utf8Immediate ==
    /\ [](ReadBadBytes =>
            /\ pc = "done"
            /\ result = Return(Err(Utf8Error))
            /\ attempts = LastEvent.att
            /\ i = attempts - 1)
    /\ [](EarlyError => (ReadBadBytes /\ result.err = Utf8Error))
    /\ [][ReadBadBytes' =>
            (write' = write /\ connect' = connect /\ i' = i /\ conns' = conns)]_vars

\* C20's case: the first of three attempts reads a payload that is not valid
\* UTF-8 and run() returns the decoding error
C20_Witness ==
    /\ ReadBadBytes /\ EarlyError
    /\ retries = 3 /\ attempts = 1 /\ i = 0
    /\ result.err = Utf8Error

=============================================================================
